---- MODULE Spec2Model ----
(***************************************************************************)
(* Passkey ceremony orchestration and password hashing of mp2-backend.     *)
(*                                                                         *)
(* The HTTP handlers of src/src/service.rs run concurrently on worker      *)
(* threads.  Each handler is split at the points where it touches shared   *)
(* state: a repository call (an await), the WebAuthn engine call, the      *)
(* acquisition of a store mutex and the map mutation under that mutex.     *)
(* The database is the passkey-user table (never written by any handler)   *)
(* and the credential table.  PasswordHandler is modelled as operators     *)
(* over strings (sequences of characters).                                 *)
(*                                                                         *)
(* Spec is the service as it runs; SpecPoisoned adds a panic under a store *)
(* guard and the poison errors that follow; SpecDiscoverable is the        *)
(* discoverable ceremony; SpecPw is the PasswordHandler on its own;        *)
(* SpecSignIn is password sign-up and sign-in against the user table.      *)
(***************************************************************************)
EXTENDS Integers, Sequences, FiniteSets, TLC

\* ------------------------------------------------------------------ bounds
\* Number of requests in flight at once.
NumProcs == 2
\* Number of principal ids Uuid::new_v4 hands out in a run (ids 1..MaxUuid).
MaxUuid == 2
\* Number of challenges the engine issues in a run (challenges 1..MaxChal).
MaxChal == 2
\* Number of distinct credential ids authenticators present.
MaxCred == 2
\* Longest password (value) handed to the PasswordHandler.
MaxValueLen == 1
\* Length of a generated salt (salt_length; the server configures 10).
SaltLength == 1
\* Longest candidate hash a caller makes up (beside the hashes produced).
MaxCandLen == 1

Procs == 1..NumProcs
\* Principal id 0 is the identity already in the passkey-user table.
Uuids == 0..MaxUuid
CredIds == 1..MaxCred
KnownMail == "a@x.com"
Mails == {KnownMail, "b@x.com"}
Kinds == {"registration", "authentication"}

\* Option<T>: None is the empty sequence, Some(x) the one-element sequence.
None == <<>>
Some(x) == <<x>>
IsSome(o) == o # <<>>
Unwrap(o) == o[1]

\* ErrorKind (and the two success statuses) a handler answers with.
Created == "Created"
Ok == "Ok"
AlreadyExists == "AlreadyExists"
AuthenticationFailure == "AuthenticationFailure"
InternalServerError == "InternalServerError"

\* ------------------------------------------------------------------ state
VARIABLES
    users,      \* passkey-user table: set of [id, mail]
    creds,      \* credential table: set of [cred, owner, passkey]
    regStore,   \* registration_store: HashMap<Uuid, PasskeyRegistration>
    authStore,  \* authentication_store: HashMap<Uuid, PasskeyAuthentication>
    lock,       \* holder of each store's mutex (0: free)
    poisoned,   \* whether each store's mutex is poisoned
    pc,         \* position of each request
    loc,        \* locals of each request
    nextUuid,   \* next id Uuid::new_v4 returns
    nextChal,   \* next challenge the engine issues
    phase,      \* history: ceremony phase per kind and principal
    hits,       \* history: takes that obtained a state since the last put
    issued,     \* history: principal ids start_registration returned per mail
    replaced,   \* history: the latest put replaced an unconsumed state
    discStore,  \* discoverable_store: HashMap<Uuid, DiscoverableAuthentication>
    discLock,   \* holder of the discoverable store's mutex (0: free)
    pepper,     \* PasswordHandler.pepper
    hashCall,   \* the last PasswordHandler::hash call and its output
    verifyCall, \* the last PasswordHandler::is_hash_of call and its output
    accounts,   \* user table (Repository): set of User rows
    signedUp,   \* history: password of the sign_up that created each mail's row
    signCall    \* the last sign_up / sign_in request and its answer

dbVars == <<users, creds>>
storeVars == <<regStore, authStore>>
lockVars == <<lock, poisoned>>
freshVars == <<nextUuid, nextChal>>
histVars == <<phase, hits, issued, replaced>>
signVars == <<accounts, signedUp, signCall>>
pwVars == <<pepper, hashCall, verifyCall, signVars>>
discVars == <<discStore, discLock>>
serviceVars == <<users, creds, regStore, authStore, lock, poisoned, pc, loc,
                 nextUuid, nextChal, phase, hits, issued, replaced,
                 discStore, discLock>>
vars == <<users, creds, regStore, authStore, lock, poisoned, pc, loc,
          nextUuid, nextChal, phase, hits, issued, replaced,
          discStore, discLock,
          pepper, hashCall, verifyCall,
          accounts, signedUp, signCall>>

\* ------------------------------------------------------------ HashMap
\* An insert that keeps the entry the map already has (entry().or_insert).
MapInsertKeepsFirst(store, id, state) ==
    [x \in (DOMAIN store) \cup {id} |-> IF x \in DOMAIN store THEN store[x] ELSE state]

\* HashMap::insert: inserts or replaces the entry of id.
MapInsert(store, id, state) ==
    [x \in (DOMAIN store) \cup {id} |-> IF x = id THEN state ELSE store[x]]

\* The value HashMap::remove returns: the entry of id, if any.
MapGet(store, id) == IF id \in DOMAIN store THEN Some(store[id]) ELSE None

\* A remove that leaves the entry in the map (a get in place of a remove).
MapRemoveKeeps(store, id) == store

\* A remove that empties the map (clear in place of remove).
MapRemoveClears(store, id) == <<>>

\* The map HashMap::remove leaves: the entry of id is gone.
MapRemove(store, id) == [x \in (DOMAIN store) \ {id} |-> store[x]]

\* --------------------------------------------------------- repository
\* PasskeyRepository::get_user_by_mail: the row of that mail, if any.
get_user_by_mail(table, mail) ==
    IF \E u \in table : u.mail = mail
    THEN Some(CHOOSE u \in table : u.mail = mail)
    ELSE None

\* A get_user_credential_ids that finds no row (a query bound to another id).
get_user_credential_ids_of_nobody(table, user_id) == {}

\* PasskeyRepository::get_user_credential_ids: credential ids of one owner.
get_user_credential_ids(table, user_id) ==
    {r.cred : r \in {x \in table : x.owner = user_id}}

\* PasskeyRepository::get_user_credentials: the passkeys of one owner.
get_user_credentials(table, user_id) ==
    {r.passkey : r \in {x \in table : x.owner = user_id}}

\* An insert that overwrites nothing and refuses nothing.
InsertCredentialNoConstraint(table, row) == Some(table \cup {row})

\* queries/passkey/create-user-credentials.sql against the credential table,
\* whose credential_id column is unique: the new table, or None for a
\* uniqueness violation.
InsertCredential(table, row) ==
    IF \E r \in table : r.cred = row.cred THEN None ELSE Some(table \cup {row})

\* A create_user_credentials that binds the owner where the credential id
\* belongs.
create_user_credentials_keyed_by_owner(table, user_id, passkey) ==
    InsertCredential(table,
        [cred |-> user_id, owner |-> user_id, passkey |-> passkey])

\* PasskeyRepository::create_user_credentials: one row keyed by the passkey's
\* credential id, owned by user_id, holding the serialised passkey.
create_user_credentials(table, user_id, passkey) ==
    InsertCredential(table,
        [cred |-> passkey.cred_id, owner |-> user_id, passkey |-> passkey])

\* Error::is_unique_violation that recognises no error.
is_unique_violation_never(err) == FALSE

\* Error::is_unique_violation: only a database error that is a uniqueness
\* violation.  err is "unique" or "io".
is_unique_violation(err) == err = "unique"

\* ---------------------------------------------------- PasswordHandler
\* Strings are sequences of characters.  Passwords are made of alphanumeric
\* characters and the delimiter; generated salts are alphanumeric.
AlnumChars == {"a", "s"}
ValueChars == AlnumChars \cup {"$"}
HexDigits == {"0", "1", "2"}

RECURSIVE StringsOver(_, _)
\* All strings over chars of length at most n.
StringsOver(chars, n) ==
    IF n = 0 THEN {<<>>}
    ELSE LET shorter == StringsOver(chars, n - 1) IN
         shorter \cup {Append(w, c) : w \in shorter, c \in chars}

Values == StringsOver(ValueChars, MaxValueLen)
Salts == {w \in StringsOver(AlnumChars, SaltLength) : Len(w) = SaltLength}
Peppers == {<<>>, <<"s">>}
Methods == {"Hash", "Salt", "Pepper", "SaltPepper"}

\* hex::encode(Sha512::digest(pre_hash)): a string of hex digits, never
\* empty, taken to be collision-free (one digit per character of the input).
Sha512Hex(pre_hash) ==
    <<"0">> \o [i \in 1..Len(pre_hash) |->
                  CASE pre_hash[i] = "a" -> "0"
                    [] pre_hash[i] = "s" -> "1"
                    [] OTHER -> "2"]

\* Option::unwrap_or("").
UnwrapOrEmpty(o) == IF IsSome(o) THEN Unwrap(o) ELSE <<>>

\* A hash_internal whose pre-hash leaves the value out.
hash_internal_without_value(value, salt, pepper_) ==
    LET pre_hash == UnwrapOrEmpty(pepper_) \o UnwrapOrEmpty(salt)
        hash == Sha512Hex(pre_hash)
    IN  IF IsSome(salt) THEN Unwrap(salt) \o <<"$">> \o hash ELSE hash

\* PasswordHandler::hash_internal: the digest of value, pepper and salt,
\* behind "salt$" when there is a salt.
hash_internal(value, salt, pepper_) ==
    LET pre_hash == value \o UnwrapOrEmpty(pepper_) \o UnwrapOrEmpty(salt)
        hash == Sha512Hex(pre_hash)
    IN  IF IsSome(salt) THEN Unwrap(salt) \o <<"$">> \o hash ELSE hash

\* An extract_salt that splits on a delimiter hash_internal never writes.
extract_salt_wrong_delimiter(value) ==
    IF \E i \in 1..Len(value) : value[i] = ":"
    THEN Some(<<>>)
    ELSE None

\* str::split_once("$"), first half: what precedes the first delimiter.
extract_salt(value) ==
    IF \E i \in 1..Len(value) : value[i] = "$"
    THEN LET first == CHOOSE i \in 1..Len(value) :
                        /\ value[i] = "$"
                        /\ \A j \in 1..(i - 1) : value[j] # "$"
         IN  Some(SubSeq(value, 1, first - 1))
    ELSE None

\* The pepper the method applies.
PepperOf(method) ==
    IF method \in {"Pepper", "SaltPepper"} THEN Some(pepper) ELSE None

\* PasswordHandler::hash; generated is what generate_string returned.
hash(value, method, generated) ==
    LET salt == IF method \in {"Salt", "SaltPepper"} THEN Some(generated) ELSE None
    IN  hash_internal(value, salt, PepperOf(method))

\* PasswordHandler::is_hash_of: the hash recomputed with the salt of
\* original_hash equals original_hash.
is_hash_of(value, original_hash, method) ==
    LET salt == IF method \in {"Salt", "SaltPepper"}
                THEN extract_salt(original_hash) ELSE None
    IN  hash_internal(value, salt, PepperOf(method)) = original_hash

\* ------------------------------------------------------ WebAuthn engine
\* Webauthn::start_passkey_registration: the opaque registration state of a
\* fresh challenge, with the credential ids to exclude.
EngineBeginRegistration(chal, exclude) == [chal |-> chal, ids |-> exclude]

\* Webauthn::finish_passkey_registration: the response answers the state's
\* challenge with a credential that is not excluded.
EngineAcceptsRegistration(resp, state) ==
    resp.chal = state.chal /\ resp.cred \notin state.ids

\* The Passkey a verified registration response yields.
PasskeyOf(resp) == [cred_id |-> resp.cred, attested |-> resp.chal]

\* Webauthn::start_passkey_authentication: the opaque authentication state of
\* a fresh challenge, constrained to the given passkeys.
EngineBeginAuthentication(chal, passkeys) ==
    [chal |-> chal, ids |-> {k.cred_id : k \in passkeys}]

\* Webauthn::finish_passkey_authentication: the response answers the state's
\* challenge with one of the allowed credentials.
EngineAcceptsAuthentication(resp, state) ==
    resp.chal = state.chal /\ resp.cred \in state.ids

\* ------------------------------------------------- handler decisions
\* A finish_passkey_registration that goes on whatever the engine answered.
RegistrationVerifiedAlways(resp, state) == TRUE

\* finish_passkey_registration, match on the engine's answer: Ok(passkey)
\* goes on to the repository, Err answers AuthenticationFailure.
RegistrationVerified(resp, state) == EngineAcceptsRegistration(resp, state)

\* A finish_passkey_authentication that goes on whatever the engine answered.
AuthenticationVerifiedAlways(resp, state) == TRUE

\* finish_passkey_authentication, match on the engine's answer.
AuthenticationVerified(resp, state) == EngineAcceptsAuthentication(resp, state)

\* A missing registration answered as an internal error.
RegistrationMissingInternal == "InternalServerError"

\* finish_passkey_registration, Ok(None) of the take: ErrorKind::DoesNotExist.
RegistrationMissing == "DoesNotExist"

\* A missing authentication answered as an internal error.
AuthenticationMissingInternal == "InternalServerError"

\* finish_passkey_authentication, Ok(None) of the take.
AuthenticationMissing == "DoesNotExist"

\* An unknown mail answered as an internal error.
UserMissingInternal == "InternalServerError"

\* start_passkey_authentication, Ok(None) of get_user_by_mail.
UserMissing == "DoesNotExist"

DoesNotExist == "DoesNotExist"

\* ----------------------------------------------------------- requests
NoResp == [chal |-> 0, cred |-> 0]
\* at is history: the ceremony phase a finish-* found when it took.
\* key is the ceremony id of a discoverable authentication.
Idle == [op |-> "none", mail |-> "", uid |-> 0, ids |-> {}, st |-> None,
         resp |-> NoResp, result |-> "", at |-> "", key |-> 0]

\* A request that has answered: only what the caller sees is kept.
Answer(l, result) ==
    [Idle EXCEPT !.op = l.op, !.uid = l.uid, !.result = result, !.at = l.at]

\* A request that has answered ServiceError::internal_server_error.
Failure(l) == [Idle EXCEPT !.op = l.op, !.result = InternalServerError]

\* A lock() that hands out the guard of a poisoned mutex as well
\* (unwrap_or_else(PoisonError::into_inner)).
LockFreeIgnoringPoison(k) == lock[k] = 0

\* Mutex::lock returns Ok(guard): the mutex is free and not poisoned.
LockFree(k) == lock[k] = 0 /\ ~poisoned[k]

\* A guard that outlives the map mutation: the mutex stays locked.
DropGuardNever(l, k) == l

\* The MutexGuard goes out of scope at the end of the match arm (start-*) or
\* of the closure given to map (finish-*): the mutex of store k is free.
DropGuard(l, k) == [l EXCEPT ![k] = 0]

\* The store of ceremony kind k.
StoreOf(k) == IF k = "registration" THEN regStore ELSE authStore

\* History of a put into the store of kind k for principal u.
PutHistory(k, u) ==
    /\ phase' = [phase EXCEPT ![k][u] = "started"]
    /\ hits' = [hits EXCEPT ![k][u] = 0]
    /\ replaced' = [replaced EXCEPT ![k][u] = (u \in DOMAIN StoreOf(k))]

\* History of a take from the store of kind k for principal u.
TakeHistory(k, u, taken) ==
    /\ phase' = [phase EXCEPT ![k][u] =
                    CASE phase[k][u] = "started" -> "taken"
                      [] phase[k][u] = "unstarted" -> "unstarted"
                      [] OTHER -> "retaken"]
    /\ hits' = [hits EXCEPT ![k][u] =
                    IF IsSome(taken) /\ @ < 2 THEN @ + 1 ELSE @]
    /\ UNCHANGED replaced

\* The user table is empty and no sign_up or sign_in has been made.
NoAccounts ==
    /\ accounts = {}
    /\ signedUp = [m \in Mails |-> None]
    /\ signCall = None

\* The pepper the server is configured with.
DefaultPepper == <<"s">>

\* The server has started: both stores are empty and no request is in
\* flight.  The passkey-user table, which no handler writes, holds one
\* identity (id 0, KnownMail); the credential table is empty.
ServiceInit ==
    /\ users = {[id |-> 0, mail |-> KnownMail]}
    /\ creds = {}
    /\ regStore = <<>>
    /\ authStore = <<>>
    /\ lock = [k \in Kinds |-> 0]
    /\ poisoned = [k \in Kinds |-> FALSE]
    /\ pc = [p \in Procs |-> "idle"]
    /\ loc = [p \in Procs |-> Idle]
    /\ nextUuid = 1
    /\ nextChal = 1
    /\ phase = [k \in Kinds |-> [u \in Uuids |-> "unstarted"]]
    /\ hits = [k \in Kinds |-> [u \in Uuids |-> 0]]
    /\ issued = [m \in Mails |-> {}]
    /\ replaced = [k \in Kinds |-> [u \in Uuids |-> FALSE]]
    /\ discStore = <<>>
    /\ discLock = 0

Init ==
    /\ ServiceInit
    /\ pepper = DefaultPepper
    /\ hashCall = None
    /\ verifyCall = None
    /\ NoAccounts

\* A start-* that drops the pending state of its principal when it fails.
store_cleared_on_failed_start(store, id) ==
    [x \in (DOMAIN store) \ {id} |-> store[x]]

\* History kept by a failed start-*: whether a state of its kind was pending
\* for its principal when it failed.
PendingAtFailure(k, u) == IF phase[k][u] = "started" THEN "started" ELSE ""

\* The store after a start-* returned internal_server_error from a repository
\* or engine Err arm: the handler has not reached the lock, the map is as it
\* was.
store_after_failed_start(store, id) == store

\* ------------------------------------------- start_passkey_registration
\* A request arrives and get_user_by_mail answers: a known identity goes on
\* to its credential ids, an unknown mail gets a fresh id and no exclusion.
StartRegUser(p, mail) ==
    /\ pc[p] = "idle"
    /\ LET user == get_user_by_mail(users, mail) IN
       IF IsSome(user)
       THEN /\ pc' = [pc EXCEPT ![p] = "sr_creds"]
            /\ loc' = [loc EXCEPT ![p] = [Idle EXCEPT !.op = "start_registration",
                            !.mail = mail, !.uid = Unwrap(user).id]]
            /\ UNCHANGED nextUuid
       ELSE /\ nextUuid <= MaxUuid
            /\ pc' = [pc EXCEPT ![p] = "sr_engine"]
            /\ loc' = [loc EXCEPT ![p] = [Idle EXCEPT !.op = "start_registration",
                            !.mail = mail, !.uid = nextUuid]]
            /\ nextUuid' = nextUuid + 1
    /\ UNCHANGED <<dbVars, storeVars, lockVars, nextChal, histVars, pwVars, discVars>>

\* get_user_by_mail fails: InternalServerError.
StartRegUserErr(p, mail) ==
    /\ pc[p] = "idle"
    /\ pc' = [pc EXCEPT ![p] = "done"]
    /\ loc' = [loc EXCEPT ![p] =
                    Failure([Idle EXCEPT !.op = "start_registration"])]
    /\ UNCHANGED <<dbVars, storeVars, lockVars, freshVars, histVars, pwVars, discVars>>

\* get_user_credential_ids answers for the known identity.
StartRegCreds(p) ==
    /\ pc[p] = "sr_creds"
    /\ pc' = [pc EXCEPT ![p] = "sr_engine"]
    /\ loc' = [loc EXCEPT ![p].ids = get_user_credential_ids(creds, loc[p].uid)]
    /\ UNCHANGED <<dbVars, storeVars, lockVars, freshVars, histVars, pwVars, discVars>>

\* get_user_credential_ids fails: InternalServerError.
StartRegCredsErr(p) ==
    /\ pc[p] = "sr_creds"
    /\ pc' = [pc EXCEPT ![p] = "done"]
    /\ loc' = [loc EXCEPT ![p] =
                    [Failure(loc[p]) EXCEPT !.at = PendingAtFailure("registration", loc[p].uid)]]
    /\ regStore' = store_after_failed_start(regStore, loc[p].uid)
    /\ UNCHANGED <<dbVars, authStore, lockVars, freshVars, histVars, pwVars, discVars>>

\* The engine issues a challenge and the registration state.
StartRegEngine(p) ==
    /\ pc[p] = "sr_engine"
    /\ nextChal <= MaxChal
    /\ pc' = [pc EXCEPT ![p] = "sr_lock"]
    /\ loc' = [loc EXCEPT ![p].st =
                    Some(EngineBeginRegistration(nextChal, loc[p].ids))]
    /\ nextChal' = nextChal + 1
    /\ UNCHANGED <<dbVars, storeVars, lockVars, nextUuid, histVars, pwVars, discVars>>

\* The engine refuses: InternalServerError.
StartRegEngineErr(p) ==
    /\ pc[p] = "sr_engine"
    /\ pc' = [pc EXCEPT ![p] = "done"]
    /\ loc' = [loc EXCEPT ![p] =
                    [Failure(loc[p]) EXCEPT !.at = PendingAtFailure("registration", loc[p].uid)]]
    /\ regStore' = store_after_failed_start(regStore, loc[p].uid)
    /\ UNCHANGED <<dbVars, authStore, lockVars, freshVars, histVars, pwVars, discVars>>

\* registration_store.lock() returns the guard.
StartRegLock(p) ==
    /\ pc[p] = "sr_lock"
    /\ LockFree("registration")
    /\ lock' = [lock EXCEPT !["registration"] = p]
    /\ pc' = [pc EXCEPT ![p] = "sr_insert"]
    /\ UNCHANGED <<dbVars, storeVars, poisoned, loc, freshVars, histVars, pwVars, discVars>>

\* registration_store.lock() returns a poison error: InternalServerError.
StartRegLockErr(p) ==
    /\ pc[p] = "sr_lock"
    /\ poisoned["registration"]
    /\ pc' = [pc EXCEPT ![p] = "done"]
    /\ loc' = [loc EXCEPT ![p] = Failure(loc[p])]
    /\ UNCHANGED <<dbVars, storeVars, lockVars, freshVars, histVars, pwVars, discVars>>

\* store.insert under the guard, the answer (user_id, challenge), the guard
\* dropped.
StartRegInsert(p) ==
    /\ pc[p] = "sr_insert"
    /\ lock["registration"] = p
    /\ regStore' = MapInsert(regStore, loc[p].uid, Unwrap(loc[p].st))
    /\ lock' = DropGuard(lock, "registration")
    /\ pc' = [pc EXCEPT ![p] = "done"]
    /\ loc' = [loc EXCEPT ![p] = Answer(loc[p], Ok)]
    /\ PutHistory("registration", loc[p].uid)
    /\ issued' = [issued EXCEPT ![loc[p].mail] = @ \cup {loc[p].uid}]
    /\ UNCHANGED <<dbVars, authStore, poisoned, freshVars, pwVars, discVars>>

\* ------------------------------------------ finish_passkey_registration
\* A request arrives for a principal id.  Its client response is first read
\* by the engine, so it is drawn where the engine verifies it.
FinishRegBegin(p, uid) ==
    /\ pc[p] = "idle"
    /\ pc' = [pc EXCEPT ![p] = "fr_lock"]
    /\ loc' = [loc EXCEPT ![p] = [Idle EXCEPT !.op = "finish_registration",
                    !.uid = uid]]
    /\ UNCHANGED <<dbVars, storeVars, lockVars, freshVars, histVars, pwVars, discVars>>

\* registration_store.lock() returns the guard.
FinishRegLock(p) ==
    /\ pc[p] = "fr_lock"
    /\ LockFree("registration")
    /\ lock' = [lock EXCEPT !["registration"] = p]
    /\ pc' = [pc EXCEPT ![p] = "fr_remove"]
    /\ UNCHANGED <<dbVars, storeVars, poisoned, loc, freshVars, histVars, pwVars, discVars>>

\* registration_store.lock() returns a poison error: InternalServerError.
FinishRegLockErr(p) ==
    /\ pc[p] = "fr_lock"
    /\ poisoned["registration"]
    /\ pc' = [pc EXCEPT ![p] = "done"]
    /\ loc' = [loc EXCEPT ![p] = Failure(loc[p])]
    /\ UNCHANGED <<dbVars, storeVars, lockVars, freshVars, histVars, pwVars, discVars>>

\* store.remove under the guard, the guard dropped; no entry answers
\* DoesNotExist.
FinishRegRemove(p) ==
    /\ pc[p] = "fr_remove"
    /\ lock["registration"] = p
    /\ LET taken == MapGet(regStore, loc[p].uid) IN
       /\ regStore' = MapRemove(regStore, loc[p].uid)
       /\ TakeHistory("registration", loc[p].uid, taken)
       /\ IF IsSome(taken)
          THEN /\ pc' = [pc EXCEPT ![p] = "fr_verify"]
               /\ loc' = [loc EXCEPT ![p].st = taken,
                                     ![p].at = phase["registration"][loc[p].uid]]
          ELSE /\ pc' = [pc EXCEPT ![p] = "done"]
               /\ loc' = [loc EXCEPT ![p] = Answer(
                            [loc[p] EXCEPT !.at = phase["registration"][loc[p].uid]],
                            RegistrationMissing)]
    /\ lock' = DropGuard(lock, "registration")
    /\ UNCHANGED <<dbVars, authStore, poisoned, freshVars, issued, pwVars, discVars>>

\* The engine verifies the response against the taken state; a rejection
\* answers AuthenticationFailure.
FinishRegVerify(p, resp) ==
    /\ pc[p] = "fr_verify"
    /\ IF RegistrationVerified(resp, Unwrap(loc[p].st))
       THEN /\ pc' = [pc EXCEPT ![p] = "fr_persist"]
            /\ loc' = [loc EXCEPT ![p].resp = resp]
       ELSE /\ pc' = [pc EXCEPT ![p] = "done"]
            /\ loc' = [loc EXCEPT ![p] = Answer(loc[p], AuthenticationFailure)]
    /\ UNCHANGED <<dbVars, storeVars, lockVars, freshVars, histVars, pwVars, discVars>>

\* create_user_credentials answers: Created, or a uniqueness violation,
\* which is_unique_violation turns into AlreadyExists.
FinishRegPersist(p) ==
    /\ pc[p] = "fr_persist"
    /\ LET inserted == create_user_credentials(creds, loc[p].uid,
                                               PasskeyOf(loc[p].resp)) IN
       IF IsSome(inserted)
       THEN /\ creds' = Unwrap(inserted)
            /\ loc' = [loc EXCEPT ![p] = Answer(loc[p], Created)]
       ELSE /\ creds' = creds
            /\ loc' = [loc EXCEPT ![p] = Answer(loc[p],
                         IF is_unique_violation("unique")
                         THEN AlreadyExists ELSE InternalServerError)]
    /\ pc' = [pc EXCEPT ![p] = "done"]
    /\ UNCHANGED <<users, storeVars, lockVars, freshVars, histVars, pwVars, discVars>>

\* create_user_credentials fails with an error that is no uniqueness
\* violation: InternalServerError.
FinishRegPersistErr(p) ==
    /\ pc[p] = "fr_persist"
    /\ pc' = [pc EXCEPT ![p] = "done"]
    /\ loc' = [loc EXCEPT ![p] = Answer(loc[p],
                 IF is_unique_violation("io")
                 THEN AlreadyExists ELSE InternalServerError)]
    /\ UNCHANGED <<dbVars, storeVars, lockVars, freshVars, histVars, pwVars, discVars>>

\* ----------------------------------------- start_passkey_authentication
\* A request arrives and get_user_by_mail answers: an unknown mail answers
\* DoesNotExist.
StartAuthUser(p, mail) ==
    /\ pc[p] = "idle"
    /\ LET user == get_user_by_mail(users, mail) IN
       IF IsSome(user)
       THEN /\ pc' = [pc EXCEPT ![p] = "sa_creds"]
            /\ loc' = [loc EXCEPT ![p] = [Idle EXCEPT !.op = "start_authentication",
                            !.mail = mail, !.uid = Unwrap(user).id]]
       ELSE /\ pc' = [pc EXCEPT ![p] = "done"]
            /\ loc' = [loc EXCEPT ![p] =
                    Answer([Idle EXCEPT !.op = "start_authentication"], UserMissing)]
    /\ UNCHANGED <<dbVars, storeVars, lockVars, freshVars, histVars, pwVars, discVars>>

\* get_user_by_mail fails: InternalServerError.
StartAuthUserErr(p, mail) ==
    /\ pc[p] = "idle"
    /\ pc' = [pc EXCEPT ![p] = "done"]
    /\ loc' = [loc EXCEPT ![p] =
                    Failure([Idle EXCEPT !.op = "start_authentication"])]
    /\ UNCHANGED <<dbVars, storeVars, lockVars, freshVars, histVars, pwVars, discVars>>

\* get_user_credentials answers with the passkeys of the identity.
StartAuthCreds(p) ==
    /\ pc[p] = "sa_creds"
    /\ pc' = [pc EXCEPT ![p] = "sa_engine"]
    /\ loc' = [loc EXCEPT ![p].ids = get_user_credentials(creds, loc[p].uid)]
    /\ UNCHANGED <<dbVars, storeVars, lockVars, freshVars, histVars, pwVars, discVars>>

\* get_user_credentials fails: InternalServerError.
StartAuthCredsErr(p) ==
    /\ pc[p] = "sa_creds"
    /\ pc' = [pc EXCEPT ![p] = "done"]
    /\ loc' = [loc EXCEPT ![p] =
                    [Failure(loc[p]) EXCEPT !.at = PendingAtFailure("authentication", loc[p].uid)]]
    /\ authStore' = store_after_failed_start(authStore, loc[p].uid)
    /\ UNCHANGED <<dbVars, regStore, lockVars, freshVars, histVars, pwVars, discVars>>

\* The engine issues a challenge and the authentication state.
StartAuthEngine(p) ==
    /\ pc[p] = "sa_engine"
    /\ nextChal <= MaxChal
    /\ pc' = [pc EXCEPT ![p] = "sa_lock"]
    /\ loc' = [loc EXCEPT ![p].st =
                    Some(EngineBeginAuthentication(nextChal, loc[p].ids)),
                          ![p].ids = {}]
    /\ nextChal' = nextChal + 1
    /\ UNCHANGED <<dbVars, storeVars, lockVars, nextUuid, histVars, pwVars, discVars>>

\* The engine refuses: InternalServerError.
StartAuthEngineErr(p) ==
    /\ pc[p] = "sa_engine"
    /\ pc' = [pc EXCEPT ![p] = "done"]
    /\ loc' = [loc EXCEPT ![p] =
                    [Failure(loc[p]) EXCEPT !.at = PendingAtFailure("authentication", loc[p].uid)]]
    /\ authStore' = store_after_failed_start(authStore, loc[p].uid)
    /\ UNCHANGED <<dbVars, regStore, lockVars, freshVars, histVars, pwVars, discVars>>

\* authentication_store.lock() returns the guard.
StartAuthLock(p) ==
    /\ pc[p] = "sa_lock"
    /\ LockFree("authentication")
    /\ lock' = [lock EXCEPT !["authentication"] = p]
    /\ pc' = [pc EXCEPT ![p] = "sa_insert"]
    /\ UNCHANGED <<dbVars, storeVars, poisoned, loc, freshVars, histVars, pwVars, discVars>>

\* authentication_store.lock() returns a poison error: InternalServerError.
StartAuthLockErr(p) ==
    /\ pc[p] = "sa_lock"
    /\ poisoned["authentication"]
    /\ pc' = [pc EXCEPT ![p] = "done"]
    /\ loc' = [loc EXCEPT ![p] = Failure(loc[p])]
    /\ UNCHANGED <<dbVars, storeVars, lockVars, freshVars, histVars, pwVars, discVars>>

\* store.insert under the guard, the answer (user_id, challenge), the guard
\* dropped.
StartAuthInsert(p) ==
    /\ pc[p] = "sa_insert"
    /\ lock["authentication"] = p
    /\ authStore' = MapInsert(authStore, loc[p].uid, Unwrap(loc[p].st))
    /\ lock' = DropGuard(lock, "authentication")
    /\ pc' = [pc EXCEPT ![p] = "done"]
    /\ loc' = [loc EXCEPT ![p] = Answer(loc[p], Ok)]
    /\ PutHistory("authentication", loc[p].uid)
    /\ UNCHANGED <<dbVars, regStore, poisoned, freshVars, issued, pwVars, discVars>>

\* ---------------------------------------- finish_passkey_authentication
\* A request arrives for a principal id.  Its client response is first read
\* by the engine, so it is drawn where the engine verifies it.
FinishAuthBegin(p, uid) ==
    /\ pc[p] = "idle"
    /\ pc' = [pc EXCEPT ![p] = "fa_lock"]
    /\ loc' = [loc EXCEPT ![p] = [Idle EXCEPT !.op = "finish_authentication",
                    !.uid = uid]]
    /\ UNCHANGED <<dbVars, storeVars, lockVars, freshVars, histVars, pwVars, discVars>>

\* authentication_store.lock() returns the guard.
FinishAuthLock(p) ==
    /\ pc[p] = "fa_lock"
    /\ LockFree("authentication")
    /\ lock' = [lock EXCEPT !["authentication"] = p]
    /\ pc' = [pc EXCEPT ![p] = "fa_remove"]
    /\ UNCHANGED <<dbVars, storeVars, poisoned, loc, freshVars, histVars, pwVars, discVars>>

\* authentication_store.lock() returns a poison error: InternalServerError.
FinishAuthLockErr(p) ==
    /\ pc[p] = "fa_lock"
    /\ poisoned["authentication"]
    /\ pc' = [pc EXCEPT ![p] = "done"]
    /\ loc' = [loc EXCEPT ![p] = Failure(loc[p])]
    /\ UNCHANGED <<dbVars, storeVars, lockVars, freshVars, histVars, pwVars, discVars>>

\* store.remove under the guard, the guard dropped; no entry answers
\* DoesNotExist.
FinishAuthRemove(p) ==
    /\ pc[p] = "fa_remove"
    /\ lock["authentication"] = p
    /\ LET taken == MapGet(authStore, loc[p].uid) IN
       /\ authStore' = MapRemove(authStore, loc[p].uid)
       /\ TakeHistory("authentication", loc[p].uid, taken)
       /\ IF IsSome(taken)
          THEN /\ pc' = [pc EXCEPT ![p] = "fa_verify"]
               /\ loc' = [loc EXCEPT ![p].st = taken,
                                     ![p].at = phase["authentication"][loc[p].uid]]
          ELSE /\ pc' = [pc EXCEPT ![p] = "done"]
               /\ loc' = [loc EXCEPT ![p] = Answer(
                            [loc[p] EXCEPT !.at = phase["authentication"][loc[p].uid]],
                            AuthenticationMissing)]
    /\ lock' = DropGuard(lock, "authentication")
    /\ UNCHANGED <<dbVars, regStore, poisoned, freshVars, issued, pwVars, discVars>>

\* A finish_passkey_authentication that writes the result of the verification
\* back into the record of the credential used.
credentials_with_usage_update(table, user_id, resp) ==
    {IF r.owner = user_id /\ r.cred = resp.cred
     THEN [r EXCEPT !.passkey.attested = resp.chal] ELSE r : r \in table}

\* finish_passkey_authentication after Ok(_) of the engine: the result is
\* dropped and no repository call follows, the credential table stays.
credentials_after_authentication(table, user_id, resp) == table

\* The engine verifies the response against the taken state: Ok, or
\* AuthenticationFailure.
FinishAuthVerify(p, resp) ==
    /\ pc[p] = "fa_verify"
    /\ pc' = [pc EXCEPT ![p] = "done"]
    /\ loc' = [loc EXCEPT ![p] = Answer(loc[p],
                 IF AuthenticationVerified(resp, Unwrap(loc[p].st))
                 THEN Ok ELSE AuthenticationFailure)]
    /\ creds' = IF AuthenticationVerified(resp, Unwrap(loc[p].st))
                THEN credentials_after_authentication(creds, loc[p].uid, resp)
                ELSE creds
    /\ UNCHANGED <<users, storeVars, lockVars, freshVars, histVars, pwVars, discVars>>

\* The answer is sent and the worker is free for the next request.
Return(p) ==
    /\ pc[p] = "done"
    /\ pc' = [pc EXCEPT ![p] = "idle"]
    /\ loc' = [loc EXCEPT ![p] = Idle]
    /\ UNCHANGED <<dbVars, storeVars, lockVars, freshVars, histVars, pwVars, discVars>>

\* ------------------------------------------------------- specification
\* What a client can send: the id of a principal that exists, a challenge
\* the engine has issued (0: none of them), a credential id.
ClientUuids == 0..(nextUuid - 1)
ClientResps == [chal : 0..(nextChal - 1), cred : CredIds]

Next ==
    \E p \in Procs :
        \/ \E mail \in Mails : StartRegUser(p, mail)
        \/ \E mail \in Mails : StartRegUserErr(p, mail)
        \/ StartRegCreds(p)
        \/ StartRegCredsErr(p)
        \/ StartRegEngine(p)
        \/ StartRegEngineErr(p)
        \/ StartRegLock(p)
        \/ StartRegInsert(p)
        \/ \E uid \in ClientUuids : FinishRegBegin(p, uid)
        \/ FinishRegLock(p)
        \/ FinishRegRemove(p)
        \/ \E resp \in ClientResps : FinishRegVerify(p, resp)
        \/ FinishRegPersist(p)
        \/ FinishRegPersistErr(p)
        \/ \E mail \in Mails : StartAuthUser(p, mail)
        \/ \E mail \in Mails : StartAuthUserErr(p, mail)
        \/ StartAuthCreds(p)
        \/ StartAuthCredsErr(p)
        \/ StartAuthEngine(p)
        \/ StartAuthEngineErr(p)
        \/ StartAuthLock(p)
        \/ StartAuthInsert(p)
        \/ \E uid \in ClientUuids : FinishAuthBegin(p, uid)
        \/ FinishAuthLock(p)
        \/ FinishAuthRemove(p)
        \/ \E resp \in ClientResps : FinishAuthVerify(p, resp)
        \/ Return(p)

Spec == Init /\ [][Next]_vars

\* ------------------------------------------------- poisoned mutexes
\* The positions at which a request holds the guard of store k.
GuardPcs(k) ==
    IF k = "registration" THEN {"sr_insert", "fr_remove"}
    ELSE {"sa_insert", "fa_remove"}

\* The thread of request p panics while it holds the guard of store k, before
\* the map is changed: unwinding drops the guard, which poisons the mutex, and
\* the request ends without an answer.  No code of the handlers panics there
\* by itself; the step stands for a panic inside the map or the allocator.
PanicUnderGuard(p, k) ==
    /\ pc[p] \in GuardPcs(k)
    /\ lock[k] = p
    /\ lock' = DropGuard(lock, k)
    /\ poisoned' = [poisoned EXCEPT ![k] = TRUE]
    /\ pc' = [pc EXCEPT ![p] = "idle"]
    /\ loc' = [loc EXCEPT ![p] = Idle]
    /\ UNCHANGED <<dbVars, storeVars, freshVars, histVars, pwVars, discVars>>

\* The service with panics under a guard and the poison errors that follow.
NextPoisoned ==
    \/ Next
    \/ \E p \in Procs :
          \/ \E k \in Kinds : PanicUnderGuard(p, k)
          \/ StartRegLockErr(p)
          \/ FinishRegLockErr(p)
          \/ StartAuthLockErr(p)
          \/ FinishAuthLockErr(p)

SpecPoisoned == Init /\ [][NextPoisoned]_vars

\* ------------------------------------------ discoverable authentication
\* main registers start_discoverable_authentication and
\* finish_discoverable_authentication and creates their store; the handlers
\* themselves are modelled after section 4.5 of the specification.  The
\* principal is unknown at the start, so the state is stored under a fresh
\* ceremony id that the start returns and the finish names.

\* Webauthn::start_discoverable_authentication: the opaque state of a fresh
\* challenge, constrained to no credential set.
EngineBeginDiscoverable(chal) == [chal |-> chal, ids |-> {}]

\* Webauthn::finish_discoverable_authentication: the response answers the
\* state's challenge with one of the principal's credentials.
EngineAcceptsDiscoverable(resp, state, passkeys) ==
    resp.chal = state.chal /\ resp.cred \in {k.cred_id : k \in passkeys}

\* The principal a credential response names: the owner of its credential.
get_user_by_credential_id(table, cred) ==
    IF \E r \in table : r.cred = cred
    THEN Some((CHOOSE r \in table : r.cred = cred).owner)
    ELSE None

\* The engine issues a challenge and the state, and the ceremony id is drawn.
StartDiscEngine(p) ==
    /\ pc[p] = "idle"
    /\ nextChal <= MaxChal
    /\ nextUuid <= MaxUuid
    /\ pc' = [pc EXCEPT ![p] = "sd_lock"]
    /\ loc' = [loc EXCEPT ![p] = [Idle EXCEPT !.op = "start_discoverable",
                    !.key = nextUuid,
                    !.st = Some(EngineBeginDiscoverable(nextChal))]]
    /\ nextChal' = nextChal + 1
    /\ nextUuid' = nextUuid + 1
    /\ UNCHANGED <<dbVars, storeVars, lockVars, histVars, pwVars, discVars>>

\* The engine refuses: InternalServerError.
StartDiscEngineErr(p) ==
    /\ pc[p] = "idle"
    /\ pc' = [pc EXCEPT ![p] = "done"]
    /\ loc' = [loc EXCEPT ![p] = Failure([Idle EXCEPT !.op = "start_discoverable"])]
    /\ UNCHANGED <<dbVars, storeVars, lockVars, freshVars, histVars, pwVars, discVars>>

\* discoverable_store.lock() returns the guard.
StartDiscLock(p) ==
    /\ pc[p] = "sd_lock"
    /\ discLock = 0
    /\ discLock' = p
    /\ pc' = [pc EXCEPT ![p] = "sd_insert"]
    /\ UNCHANGED <<dbVars, storeVars, lockVars, loc, freshVars, histVars, pwVars,
                   discStore>>

\* put under the guard, the answer (ceremony id, challenge), the guard dropped.
StartDiscInsert(p) ==
    /\ pc[p] = "sd_insert"
    /\ discLock = p
    /\ discStore' = MapInsert(discStore, loc[p].key, Unwrap(loc[p].st))
    /\ discLock' = 0
    /\ pc' = [pc EXCEPT ![p] = "done"]
    /\ loc' = [loc EXCEPT ![p] = [Answer(loc[p], Ok) EXCEPT !.key = loc[p].key]]
    /\ UNCHANGED <<dbVars, storeVars, lockVars, freshVars, histVars, pwVars>>

\* A request arrives with a ceremony id and a credential response; the
\* principal is recovered from the response.  A credential nobody owns
\* answers DoesNotExist.
FinishDiscBegin(p, key, resp) ==
    /\ pc[p] = "idle"
    /\ LET principal == get_user_by_credential_id(creds, resp.cred) IN
       IF IsSome(principal)
       THEN /\ pc' = [pc EXCEPT ![p] = "fd_lock"]
            /\ loc' = [loc EXCEPT ![p] = [Idle EXCEPT !.op = "finish_discoverable",
                            !.key = key, !.resp = resp,
                            !.uid = Unwrap(principal)]]
       ELSE /\ pc' = [pc EXCEPT ![p] = "done"]
            /\ loc' = [loc EXCEPT ![p] =
                    Answer([Idle EXCEPT !.op = "finish_discoverable"], DoesNotExist)]
    /\ UNCHANGED <<dbVars, storeVars, lockVars, freshVars, histVars, pwVars, discVars>>

\* discoverable_store.lock() returns the guard.
FinishDiscLock(p) ==
    /\ pc[p] = "fd_lock"
    /\ discLock = 0
    /\ discLock' = p
    /\ pc' = [pc EXCEPT ![p] = "fd_remove"]
    /\ UNCHANGED <<dbVars, storeVars, lockVars, loc, freshVars, histVars, pwVars,
                   discStore>>

\* take under the guard, the guard dropped; no entry answers DoesNotExist.
\* at is history: whether the take found a state.
FinishDiscRemove(p) ==
    /\ pc[p] = "fd_remove"
    /\ discLock = p
    /\ LET taken == MapGet(discStore, loc[p].key) IN
       /\ discStore' = MapRemove(discStore, loc[p].key)
       /\ IF IsSome(taken)
          THEN /\ pc' = [pc EXCEPT ![p] = "fd_verify"]
               /\ loc' = [loc EXCEPT ![p].st = taken, ![p].at = "present"]
          ELSE /\ pc' = [pc EXCEPT ![p] = "done"]
               /\ loc' = [loc EXCEPT ![p] =
                    [Answer([loc[p] EXCEPT !.at = "absent"], DoesNotExist)
                        EXCEPT !.key = loc[p].key]]
    /\ discLock' = 0
    /\ UNCHANGED <<dbVars, storeVars, lockVars, freshVars, histVars, pwVars>>

\* The engine verifies the response against the taken state and the
\* credentials of the recovered principal: Ok, or AuthenticationFailure.
FinishDiscVerify(p) ==
    /\ pc[p] = "fd_verify"
    /\ pc' = [pc EXCEPT ![p] = "done"]
    /\ loc' = [loc EXCEPT ![p] =
                 [Answer(loc[p],
                    IF EngineAcceptsDiscoverable(loc[p].resp, Unwrap(loc[p].st),
                           get_user_credentials(creds, loc[p].uid))
                    THEN Ok ELSE AuthenticationFailure)
                     EXCEPT !.key = loc[p].key]]
    /\ UNCHANGED <<dbVars, storeVars, lockVars, freshVars, histVars, pwVars, discVars>>

\* The known identity has enrolled credential 1 in a registration that used
\* the first challenge, and every request has been answered.
AfterEnrolment ==
    /\ users = {[id |-> 0, mail |-> KnownMail]}
    /\ creds = {[cred |-> 1, owner |-> 0,
                 passkey |-> PasskeyOf([chal |-> 1, cred |-> 1])]}
    /\ regStore = <<>>
    /\ authStore = <<>>
    /\ lock = [k \in Kinds |-> 0]
    /\ poisoned = [k \in Kinds |-> FALSE]
    /\ pc = [p \in Procs |-> "idle"]
    /\ loc = [p \in Procs |-> Idle]
    /\ nextUuid = 1
    /\ nextChal = 2
    /\ phase = [k \in Kinds |-> [u \in Uuids |->
                  IF k = "registration" /\ u = 0 THEN "taken" ELSE "unstarted"]]
    /\ hits = [k \in Kinds |-> [u \in Uuids |->
                  IF k = "registration" /\ u = 0 THEN 1 ELSE 0]]
    /\ issued = [m \in Mails |-> IF m = KnownMail THEN {0} ELSE {}]
    /\ replaced = [k \in Kinds |-> [u \in Uuids |-> FALSE]]
    /\ discStore = <<>>
    /\ discLock = 0

\* The discoverable ceremony runs on a server that has just started or on
\* one where the known identity has enrolled a credential.
InitDiscoverable ==
    /\ ServiceInit \/ AfterEnrolment
    /\ pepper = DefaultPepper
    /\ hashCall = None
    /\ verifyCall = None
    /\ NoAccounts

NextDiscoverable ==
    \E p \in Procs :
        \/ StartDiscEngine(p)
        \/ StartDiscEngineErr(p)
        \/ StartDiscLock(p)
        \/ StartDiscInsert(p)
        \/ \E key \in ClientUuids : \E resp \in ClientResps :
              FinishDiscBegin(p, key, resp)
        \/ FinishDiscLock(p)
        \/ FinishDiscRemove(p)
        \/ FinishDiscVerify(p)
        \/ Return(p)

SpecDiscoverable == InitDiscoverable /\ [][NextDiscoverable]_vars

\* ------------------------------------------- PasswordHandler on its own
\* hash is called with a value and a method; generate_string draws the salt.
Hash(value, method, generated) ==
    /\ hashCall = None
    /\ verifyCall = None
    /\ hashCall' = Some([value |-> value, method |-> method,
                         out |-> hash(value, method, generated)])
    /\ UNCHANGED <<serviceVars, pepper, verifyCall, signVars>>

\* What a caller can hand in as a hash: a string it made up, or the hash
\* produced before.
Candidates ==
    StringsOver(ValueChars \cup HexDigits, MaxCandLen)
        \cup {c.out : c \in {Unwrap(h) : h \in {hashCall} \ {None}}}

\* is_hash_of is called with a value, a candidate hash and a method.
IsHashOf(value, candidate, method) ==
    /\ verifyCall = None
    /\ verifyCall' = Some([value |-> value, method |-> method,
                           cand |-> candidate,
                           out |-> is_hash_of(value, candidate, method)])
    /\ UNCHANGED <<serviceVars, pepper, hashCall, signVars>>

InitPw ==
    /\ ServiceInit
    /\ pepper \in Peppers
    /\ hashCall = None
    /\ verifyCall = None
    /\ NoAccounts

NextPw ==
    \/ \E value \in Values, method \in Methods, generated \in Salts :
          Hash(value, method, generated)
    \/ \E value \in Values, method \in Methods, candidate \in Candidates :
          IsHashOf(value, candidate, method)

SpecPw == InitPw /\ [][NextPw]_vars

\* ------------------------------------------------ sign_up and sign_in
\* The name a sign_up gives; no handler reads it back.
Names == {"A"}

\* UserDTO::new: the password as given and its four hashes; salt and
\* salt_and_pepper are what generate_string returned for the two salted
\* methods.
UserDTO(email, name, password, salt, salt_and_pepper) ==
    [email |-> email,
     name |-> name,
     password_plain |-> password,
     password_hashed |-> hash(password, "Hash", <<>>),
     password_salted |-> hash(password, "Salt", salt),
     password_peppered |-> hash(password, "Pepper", <<>>),
     password_salted_and_peppered |-> hash(password, "SaltPepper", salt_and_pepper)]

\* queries/create-user.sql against the user table, whose email column is
\* unique: the new table, or None for a uniqueness violation.
InsertUser(table, row) ==
    IF \E r \in table : r.email = row.email THEN None ELSE Some(table \cup {row})

\* Repository::create_user: one row holding the fields of the DTO.
create_user(table, user) == InsertUser(table, user)

\* Repository::get_by_mail: the row of that mail, if any.
get_by_mail(table, email) ==
    IF \E u \in table : u.email = email
    THEN Some(CHOOSE u \in table : u.email = email)
    ELSE None

\* A password_hash that hands out the unsalted, unpeppered digest.
password_hash_unsalted(user) == user.password_hashed

\* User::password_hash: the salted and peppered hash.
password_hash(user) == user.password_salted_and_peppered

\* sign_up while the repository answers: the table and the answer.
sign_up(table, mail, name, password, salt, salt_and_pepper) ==
    LET result == create_user(table, UserDTO(mail, name, password, salt, salt_and_pepper))
    IN  IF IsSome(result)
        THEN [table |-> Unwrap(result), result |-> Created]
        ELSE [table |-> table,
              result |-> IF is_unique_violation("unique")
                         THEN AlreadyExists ELSE InternalServerError]

\* sign_in while the repository answers.
sign_in(table, mail, password) ==
    LET result == get_by_mail(table, mail)
    IN  IF IsSome(result)
        THEN IF is_hash_of(password, password_hash(Unwrap(result)), "SaltPepper")
             THEN Ok
             ELSE AuthenticationFailure
        ELSE DoesNotExist

SignCall(op, mail, password, result) ==
    Some([op |-> op, mail |-> mail, password |-> password, result |-> result])

\* POST /sign-up.
SignUp(mail, name, password, salt, salt_and_pepper) ==
    LET out == sign_up(accounts, mail, name, password, salt, salt_and_pepper) IN
    /\ accounts' = out.table
    /\ signedUp' = IF out.result = Created
                   THEN [signedUp EXCEPT ![mail] = Some(password)]
                   ELSE signedUp
    /\ signCall' = SignCall("sign_up", mail, password, out.result)
    /\ UNCHANGED <<serviceVars, pepper, hashCall, verifyCall>>

\* POST /sign-up, the insert failing with an error that is no uniqueness
\* violation.
SignUpErr(mail, password) ==
    /\ signCall' = SignCall("sign_up", mail, password,
                            IF is_unique_violation("io")
                            THEN AlreadyExists ELSE InternalServerError)
    /\ UNCHANGED <<serviceVars, pepper, hashCall, verifyCall, accounts, signedUp>>

\* POST /sign-in.
SignIn(mail, password) ==
    /\ signCall' = SignCall("sign_in", mail, password, sign_in(accounts, mail, password))
    /\ UNCHANGED <<serviceVars, pepper, hashCall, verifyCall, accounts, signedUp>>

\* POST /sign-in, the query failing.
SignInErr(mail, password) ==
    /\ signCall' = SignCall("sign_in", mail, password, InternalServerError)
    /\ UNCHANGED <<serviceVars, pepper, hashCall, verifyCall, accounts, signedUp>>

InitSignIn ==
    /\ ServiceInit
    /\ pepper \in Peppers
    /\ hashCall = None
    /\ verifyCall = None
    /\ NoAccounts

NextSignIn ==
    \/ \E mail \in Mails, name \in Names, password \in Values :
          \E salt \in Salts, salt_and_pepper \in Salts :
              SignUp(mail, name, password, salt, salt_and_pepper)
    \/ \E mail \in Mails, password \in Values : SignUpErr(mail, password)
    \/ \E mail \in Mails, password \in Values : SignIn(mail, password)
    \/ \E mail \in Mails, password \in Values : SignInErr(mail, password)

SpecSignIn == InitSignIn /\ [][NextSignIn]_vars

HasDelimiter(w) == \E i \in 1..Len(w) : w[i] = "$"

\* C3: verification of a salted method fails closed: is_hash_of answers false
\* for every candidate hash without the delimiter, whatever the value.
C3_FailsClosed ==
    \A v \in {Unwrap(c) : c \in {verifyCall} \ {None}} :
        (v.method \in {"Salt", "SaltPepper"} /\ ~HasDelimiter(v.cand))
            => v.out = FALSE

\* ------------------------------------------------------------- claims
FinishOps == {"finish_registration", "finish_authentication"}
KindOf(op) ==
    IF op \in {"start_registration", "finish_registration"}
    THEN "registration" ELSE "authentication"
\* The request holds a pending state it took from the store of its kind.
HoldsState(p) == pc[p] \in {"fr_verify", "fr_persist", "fa_verify"}
\* The request has gone through its take.
HasTaken(p) == HoldsState(p) \/ (pc[p] = "done" /\ loc[p].op \in FinishOps /\ loc[p].at # "")

\* C1: pending ceremony state is single-use.  A finish-* of either kind that
\* takes after an earlier finish-* consumed the state of its principal, with
\* no start-* of that kind for the principal in between, obtains no state and
\* answers DoesNotExist.
C1_SingleUse ==
    \A p \in Procs :
        (HasTaken(p) /\ loc[p].at \in {"taken", "retaken"})
            => /\ pc[p] = "done"
               /\ loc[p].st = None
               /\ loc[p].result = DoesNotExist

\* A finish_registration answered DoesNotExist after the earlier finish of
\* the same principal had consumed the state.
C1_Witness ==
    \E p \in Procs :
        /\ pc[p] = "done"
        /\ loc[p].op = "finish_registration"
        /\ loc[p].at = "taken"
        /\ loc[p].result = DoesNotExist

\* C2: of the finish-* requests of one kind that take against one stored
\* pending state of a principal, exactly one obtains it: the state is handed
\* out once as soon as one of them has taken, never twice, and two requests
\* never hold the same state.
C2_ExactlyOne ==
    /\ \A k \in Kinds, u \in Uuids :
          /\ hits[k][u] <= 1
          /\ phase[k][u] \in {"taken", "retaken"} => hits[k][u] = 1
    /\ \A p, q \in Procs :
          (p # q /\ HoldsState(p) /\ HoldsState(q)
               /\ KindOf(loc[p].op) = KindOf(loc[q].op)
               /\ loc[p].uid = loc[q].uid)
            => loc[q].st # loc[p].st

\* Two finish_authentication requests for one principal in flight together:
\* one took the state and is still being verified, the other took after it
\* and answered DoesNotExist.
C2_Witness ==
    \E p, q \in Procs :
        /\ p # q
        /\ pc[p] = "fa_verify" /\ loc[p].at = "started"
        /\ pc[q] = "done" /\ loc[q].op = "finish_authentication"
        /\ loc[q].uid = loc[p].uid
        /\ loc[q].at = "taken"
        /\ loc[q].result = DoesNotExist

\* The request p takes the step that leaves position at.
Steps(p, at) == pc[p] = at /\ pc'[p] # at

\* C4: a finish_registration whose take finds no pending registration state
\* for its principal answers DoesNotExist at once: the engine is not asked
\* (no challenge is used, the request never reaches verification) and the
\* credential table is left as it was.
C4_MissingRegistration ==
    [][\A p \in Procs :
          (Steps(p, "fr_remove") /\ loc[p].uid \notin DOMAIN regStore)
            => /\ pc'[p] = "done"
               /\ loc'[p].result = DoesNotExist
               /\ loc'[p].st = None
               /\ creds' = creds
               /\ nextChal' = nextChal]_vars

\* A finish_registration for a principal no start_registration ever served
\* has answered DoesNotExist.
C4_Witness ==
    \E p \in Procs :
        /\ pc[p] = "done"
        /\ loc[p].op = "finish_registration"
        /\ loc[p].at = "unstarted"
        /\ loc[p].result = DoesNotExist

\* C5: once a credential is stored for a principal id that start_registration
\* returned for a mail, resolving that mail yields the identity with that id.
C5_IdentityPersisted ==
    \A m \in Mails : \A u \in issued[m] :
        (\E r \in creds : r.owner = u)
            => get_user_by_mail(users, m) = Some([id |-> u, mail |-> m])

\* C6: all principal ids start_registration returned for one mail are the
\* same id.
C6_OneIdentityPerMail ==
    \A m \in Mails : Cardinality(issued[m]) <= 1

\* The credential the response of p carries is enrolled for another principal.
OwnedByOther(p) ==
    \E r \in creds : r.passkey.cred_id = loc[p].resp.cred /\ r.owner # loc[p].uid

\* C7: a finish_registration that reaches the repository with a credential id
\* another principal owns leaves the credential table unchanged, and when the
\* repository executes the insert the answer is AlreadyExists.
C7_DuplicateCredential ==
    [][\A p \in Procs :
          (Steps(p, "fr_persist") /\ OwnedByOther(p))
            => /\ creds' = creds
               /\ pc'[p] = "done"
               /\ FinishRegPersist(p) => loc'[p].result = AlreadyExists]_vars

\* A finish_registration has answered AlreadyExists while every enrolled
\* credential belongs to another principal.
C7_Witness ==
    \E p \in Procs :
        /\ pc[p] = "done"
        /\ loc[p].op = "finish_registration"
        /\ loc[p].result = AlreadyExists
        /\ creds # {}
        /\ \A r \in creds : r.owner # loc[p].uid

\* C8: every row of the credential table stays as it is for ever, and no
\* credential id has two rows: each enrolled credential id has exactly one
\* owner, which never changes.
C8_OneOwner ==
    [][/\ \A r \in creds : r \in creds'
       /\ \A r1, r2 \in creds' :
            (r1.cred = r2.cred \/ r1.passkey.cred_id = r2.passkey.cred_id)
                => r1 = r2]_vars

\* Two verified finish_registration requests of different principals present
\* the same credential id: one has stored it, the other is about to insert.
C8_Witness ==
    \E p, q \in Procs :
        /\ pc[p] = "fr_persist" /\ OwnedByOther(p)
        /\ pc[q] = "done" /\ loc[q].op = "finish_registration"
        /\ loc[q].result = Created
        /\ \E r \in creds :
              r.passkey.cred_id = loc[p].resp.cred /\ r.owner = loc[q].uid

\* The request p takes its verification step with a response the engine
\* rejects.
RejectedAuthentication(p) ==
    \E resp \in ClientResps :
        /\ FinishAuthVerify(p, resp)
        /\ ~EngineAcceptsAuthentication(resp, Unwrap(loc[p].st))

\* C9 as stated: when finish_authentication answers a rejected response, the
\* answer is AuthenticationFailure and the authentication store holds no
\* pending state for the principal.
C9_NoPendingState ==
    [][\A p \in Procs :
          RejectedAuthentication(p)
            => /\ loc'[p].result = AuthenticationFailure
               /\ loc[p].uid \notin DOMAIN authStore']_vars

\* C9 amended: when finish_authentication answers a rejected response, the
\* answer is AuthenticationFailure and the state it took is no longer in the
\* authentication store; the store holds a state for the principal only if a
\* start_authentication put one after the take.
C9_NoResidualState ==
    [][\A p \in Procs :
          RejectedAuthentication(p)
            => /\ loc'[p].result = AuthenticationFailure
               /\ pc'[p] = "done"
               /\ loc[p].uid \in DOMAIN authStore'
                    => /\ authStore'[loc[p].uid] # Unwrap(loc[p].st)
                       /\ phase["authentication"][loc[p].uid] = "started"
               /\ phase["authentication"][loc[p].uid] # "started"
                    => loc[p].uid \notin DOMAIN authStore']_vars

\* A finish_authentication has answered AuthenticationFailure and nothing is
\* pending for its principal.
C9_Witness ==
    \E p \in Procs :
        /\ pc[p] = "done"
        /\ loc[p].op = "finish_authentication"
        /\ loc[p].result = AuthenticationFailure
        /\ phase["authentication"][loc[p].uid] = "taken"
        /\ loc[p].uid \notin DOMAIN authStore

\* The request p takes its verification step with a response the engine
\* rejects.
RejectedRegistration(p) ==
    \E resp \in ClientResps :
        /\ FinishRegVerify(p, resp)
        /\ ~EngineAcceptsRegistration(resp, Unwrap(loc[p].st))

\* C10: a finish_registration whose response the engine rejects answers
\* AuthenticationFailure and stores nothing; the credential table changes
\* only by the insert of a request whose response the engine accepted against
\* the state that request took, and only such a request answers Created.
C10_VerifiedBeforePersist ==
    [][/\ \A p \in Procs :
            RejectedRegistration(p)
              => /\ pc'[p] = "done"
                 /\ loc'[p].result = AuthenticationFailure
                 /\ creds' = creds
       /\ \A p \in Procs :
            (pc'[p] = "done" /\ pc[p] # "done" /\ loc'[p].result = Created)
              => /\ pc[p] = "fr_persist"
                 /\ EngineAcceptsRegistration(loc[p].resp, Unwrap(loc[p].st))
       /\ creds' # creds
            => \E p \in Procs :
                 /\ pc[p] = "fr_persist"
                 /\ EngineAcceptsRegistration(loc[p].resp, Unwrap(loc[p].st))
                 /\ loc'[p].result = Created
                 /\ creds' = creds \cup
                      {[cred |-> loc[p].resp.cred, owner |-> loc[p].uid,
                        passkey |-> PasskeyOf(loc[p].resp)]}]_vars

\* A finish_registration has answered AuthenticationFailure for a state it
\* took, and no credential is enrolled for its principal.
C10_Witness ==
    \E p \in Procs :
        /\ pc[p] = "done"
        /\ loc[p].op = "finish_registration"
        /\ loc[p].result = AuthenticationFailure
        /\ loc[p].at = "started"
        /\ \A r \in creds : r.owner # loc[p].uid

\* C11: a start_authentication whose mail resolves to no identity answers
\* DoesNotExist at once: the engine issues no challenge, the request never
\* reaches the store and the authentication store is left as it was.
C11_UnknownMail ==
    [][\A p \in Procs : \A mail \in Mails :
          (StartAuthUser(p, mail) /\ get_user_by_mail(users, mail) = None)
            => /\ pc'[p] = "done"
               /\ loc'[p].result = DoesNotExist
               /\ loc'[p].st = None
               /\ nextChal' = nextChal
               /\ authStore' = authStore
               /\ lock' = lock]_vars

\* A start_authentication has answered DoesNotExist while the authentication
\* store holds the state of another principal's ceremony.
C11_Witness ==
    \E p \in Procs :
        /\ pc[p] = "done"
        /\ loc[p].op = "start_authentication"
        /\ loc[p].result = DoesNotExist
        /\ DOMAIN authStore # {}

\* C12: end to end.  A finish_registration that reaches the repository does so
\* for a principal id start_registration handed out and with a response the
\* engine accepted.  When no row holds its credential id the answer is Created
\* and get_user_credentials returns the passkey for that principal id, now and
\* after every later step; when a row already holds the credential id the
\* answer is AlreadyExists and the table is unchanged.
C12_EndToEnd ==
    [][/\ \A p \in Procs :
            FinishRegPersist(p)
              => LET passkey == PasskeyOf(loc[p].resp) IN
                 /\ loc[p].uid \in UNION {issued[m] : m \in Mails}
                 /\ EngineAcceptsRegistration(loc[p].resp, Unwrap(loc[p].st))
                 /\ IF \E r \in creds : r.passkey.cred_id = passkey.cred_id
                    THEN /\ loc'[p].result = AlreadyExists
                         /\ creds' = creds
                    ELSE /\ loc'[p].result = Created
                         /\ passkey \in get_user_credentials(creds', loc[p].uid)
       /\ \A u \in Uuids :
            get_user_credentials(creds, u) \subseteq get_user_credentials(creds', u)]_vars

\* A registration has stored a credential for a principal, and a later
\* registration of the same principal, finished with the same credential id,
\* has answered AlreadyExists.
C12_Witness ==
    \E p \in Procs :
        /\ pc[p] = "done"
        /\ loc[p].op = "finish_registration"
        /\ loc[p].result = AlreadyExists
        /\ get_user_credentials(creds, loc[p].uid) # {}

\* The request p puts its state into the store of kind k.
Puts(p, k) ==
    IF k = "registration" THEN Steps(p, "sr_insert") ELSE Steps(p, "sa_insert")

\* The request p takes from the store of kind k.
Takes(p, k) ==
    IF k = "registration" THEN Steps(p, "fr_remove") ELSE Steps(p, "fa_remove")

\* C13: a store holds one pending state per principal id and a put replaces.
\* A start-* that puts for a principal whose state is unconsumed leaves its
\* own state as the only one of that principal, and the state it replaced is
\* in no store and in no request's hands afterwards.  A finish-* obtains
\* exactly the state its store holds for the principal at the take, that is
\* the state of the latest put, and is verified against the state it
\* obtained.  A request comes by a state only from the engine, fresh, or by
\* its take.
C13_PutReplaces ==
    [][/\ \A k \in Kinds : \A p \in Procs :
            Puts(p, k)
              => LET u == loc[p].uid
                     new == Unwrap(loc[p].st)
                 IN  /\ StoreOf(k)' = [x \in (DOMAIN StoreOf(k)) \cup {u} |->
                                          IF x = u THEN new ELSE StoreOf(k)[x]]
                     /\ u \in DOMAIN StoreOf(k)
                          => /\ StoreOf(k)[u] # new
                             /\ \A x \in DOMAIN StoreOf(k)' :
                                   StoreOf(k)'[x] # StoreOf(k)[u]
                             /\ \A q \in Procs : loc'[q].st # Some(StoreOf(k)[u])
       /\ \A k \in Kinds : \A p \in Procs :
            Takes(p, k)
              => /\ loc'[p].st = MapGet(StoreOf(k), loc[p].uid)
                 /\ loc[p].uid \notin DOMAIN StoreOf(k)'
       /\ \A p \in Procs :
            (loc'[p].st # loc[p].st /\ loc'[p].st # None)
              => \/ /\ pc[p] \in {"sr_engine", "sa_engine"}
                    /\ Unwrap(loc'[p].st).chal = nextChal
                    /\ nextChal' = nextChal + 1
                 \/ /\ pc[p] \in {"fr_remove", "fa_remove"}
                    /\ loc'[p].st = MapGet(StoreOf(KindOf(loc[p].op)), loc[p].uid)
       /\ \A p \in Procs : \A resp \in ClientResps :
            /\ FinishRegVerify(p, resp)
                 => (pc'[p] = "fr_persist"
                       <=> EngineAcceptsRegistration(resp, Unwrap(loc[p].st)))
            /\ FinishAuthVerify(p, resp)
                 => (loc'[p].result = Ok
                       <=> EngineAcceptsAuthentication(resp, Unwrap(loc[p].st)))]_vars

\* A second start_registration has replaced the unconsumed state of its
\* principal, and a finish_registration has taken the state of that second
\* start and is being verified against it.
C13_Witness ==
    \E p \in Procs : \E k \in Kinds :
        /\ pc[p] = "fr_verify"
        /\ k = "registration"
        /\ replaced[k][loc[p].uid]
        /\ phase[k][loc[p].uid] = "taken"
        /\ loc[p].at = "started"
        /\ loc[p].uid \notin DOMAIN regStore

\* The request p answers in this step.
Answers(p) == pc[p] # "done" /\ pc'[p] = "done"

\* The engine rejects the response of p in this step.
Rejected(p) == RejectedRegistration(p) \/ RejectedAuthentication(p)

\* The positions at which a request asks for the guard of store k.
LockPcs(k) ==
    IF k = "registration" THEN {"sr_lock", "fr_lock"} ELSE {"sa_lock", "fa_lock"}

\* C14: a finish-* answers AuthenticationFailure exactly when it took a
\* pending state and the engine rejected the response against it, and answers
\* InternalServerError exactly when the lock of its store is poisoned or the
\* repository failed with an error that is no uniqueness violation; the two
\* answers never share a cause.
C14_NotConflated ==
    [][\A p \in Procs :
          (Answers(p) /\ loc'[p].op \in FinishOps)
            => /\ loc'[p].result = AuthenticationFailure <=> Rejected(p)
               /\ Rejected(p) => /\ HoldsState(p)
                                 /\ IsSome(loc[p].st)
                                 /\ loc[p].at = "started"
               /\ loc'[p].result = InternalServerError
                    <=> \/ /\ pc[p] \in LockPcs(KindOf(loc[p].op))
                           /\ poisoned[KindOf(loc[p].op)]
                        \/ /\ FinishRegPersistErr(p)
                           /\ ~is_unique_violation("io")
               /\ ~(Rejected(p) /\ (FinishRegPersistErr(p)
                                      \/ pc[p] \in LockPcs(KindOf(loc[p].op))))]_vars

\* One finish-* has answered AuthenticationFailure for a state it took and
\* another has answered InternalServerError at the poisoned lock of the
\* authentication store.
C14_Witness ==
    \E p, q \in Procs :
        /\ pc[p] = "done" /\ loc[p].op \in FinishOps
        /\ loc[p].result = AuthenticationFailure /\ loc[p].at = "started"
        /\ pc[q] = "done" /\ loc[q].op = "finish_authentication"
        /\ loc[q].result = InternalServerError
        /\ poisoned["authentication"]

\* C15: the guard of a store is held only at the map mutation.  Whoever holds
\* the lock of a store is at the insert or the remove of that store, whoever
\* is there holds it, and no request that is at a repository call, at an
\* engine call, waiting for a lock or answering holds any lock.
C15_LockOnlyForMutation ==
    /\ \A k \in Kinds :
          lock[k] # 0 => /\ lock[k] \in Procs
                         /\ pc[lock[k]] \in GuardPcs(k)
    /\ \A p \in Procs : \A k \in Kinds :
          /\ pc[p] \in GuardPcs(k) => lock[k] = p
          /\ pc[p] \in {"idle", "sr_creds", "sr_engine", "sr_lock", "fr_lock",
                        "fr_verify", "fr_persist", "sa_creds", "sa_engine",
                        "sa_lock", "fa_lock", "fa_verify", "done"}
               => lock[k] # p

\* One request holds the guard of the registration store for its insert while
\* another, which has taken its state and dropped the guard, is at the
\* repository insert.
C15_Witness ==
    \E p, q \in Procs :
        /\ pc[p] = "sr_insert" /\ lock["registration"] = p
        /\ pc[q] = "fr_persist"

\* C16: while the mutex of a store is poisoned it stays poisoned, nobody gets
\* its guard and the store does not change, and every start-* or finish-* that
\* asks for the guard answers InternalServerError: it inserts and takes no
\* state, goes on to no verification and no repository insert, and leaves the
\* credential table as it was.
C16_PoisonedLock ==
    [][\A k \in Kinds :
          poisoned[k]
            => /\ poisoned'[k]
               /\ lock[k] = 0 /\ lock'[k] = 0
               /\ StoreOf(k)' = StoreOf(k)
               /\ \A p \in Procs :
                    (pc[p] \in LockPcs(k) /\ pc'[p] # pc[p])
                      => /\ pc'[p] = "done"
                         /\ loc'[p].result = InternalServerError
                         /\ loc'[p].st = None
                         /\ creds' = creds]_vars

\* A finish_authentication has answered InternalServerError at the poisoned
\* lock of the authentication store, which still holds a pending state.
C16_Witness ==
    \E p \in Procs :
        /\ poisoned["authentication"]
        /\ pc[p] = "done"
        /\ loc[p].op = "finish_authentication"
        /\ loc[p].result = InternalServerError
        /\ DOMAIN authStore # {}

\* The pending state of principal u in the store of kind k is gone or altered
\* after this step.
Disturbed(k, u) ==
    /\ u \in DOMAIN StoreOf(k)
    /\ \/ u \notin DOMAIN StoreOf(k)'
       \/ StoreOf(k)'[u] # StoreOf(k)[u]

\* C17: a stored pending state stays in its store, unchanged, in every step
\* but two: the remove of a finish-* of that kind for that principal, which
\* takes it away, and the insert of a start-* of that kind for that principal,
\* which puts the new state in its place.  Steps of requests for another
\* principal or of the other ceremony kind, and steps that only let time pass
\* (arrivals, answers, repository and engine calls), leave it alone, and no
\* step changes both stores.
C17_StateStays ==
    [][/\ \A k \in Kinds : \A u \in Uuids :
            Disturbed(k, u)
              => \E p \in Procs :
                    /\ loc[p].uid = u
                    /\ KindOf(loc[p].op) = k
                    /\ \/ /\ Takes(p, k)
                          /\ loc[p].op \in FinishOps
                          /\ u \notin DOMAIN StoreOf(k)'
                          /\ loc'[p].st = Some(StoreOf(k)[u])
                       \/ /\ Puts(p, k)
                          /\ loc[p].op \notin FinishOps
                          /\ StoreOf(k)'[u] = Unwrap(loc[p].st)
       /\ regStore' = regStore \/ authStore' = authStore]_vars

\* The registration state of the known identity, put with the first
\* challenge, is still in the registration store after a registration of
\* another principal has been started and taken and after a
\* finish_authentication for the known identity has answered.
C17_Witness ==
    \E p \in Procs :
        /\ 0 \in DOMAIN regStore
        /\ regStore[0].chal = 1
        /\ \E u \in Uuids \ {0} : phase["registration"][u] = "taken"
        /\ pc[p] = "done"
        /\ loc[p].op = "finish_authentication"
        /\ loc[p].uid = 0
        /\ loc[p].result = DoesNotExist

\* The hash calls and the is_hash_of calls made so far.
HashCalls == {Unwrap(c) : c \in {hashCall} \ {None}}
VerifyCalls == {Unwrap(c) : c \in {verifyCall} \ {None}}

\* C18: hash/verify round trip.  For every value, every method and every salt
\* hash generates, is_hash_of of the same value and method on the string hash
\* returned is true, the pepper being the handler's in both calls.
C18_RoundTrip ==
    \A h \in HashCalls : \A v \in VerifyCalls :
        (v.value = h.value /\ v.method = h.method /\ v.cand = h.out)
            => v.out = TRUE

\* A value holding the delimiter was hashed with SaltPepper under a pepper
\* that is not empty, and is_hash_of has accepted it.
C18_Witness ==
    \E h \in HashCalls : \E v \in VerifyCalls :
        /\ pepper # <<>>
        /\ h.method = "SaltPepper"
        /\ h.value = <<"$">>
        /\ v.value = h.value /\ v.method = h.method /\ v.cand = h.out
        /\ v.out = TRUE

\* The strings a and b have the same length and differ at exactly one place.
DiffersInOneCharacter(a, b) ==
    /\ Len(a) = Len(b)
    /\ Cardinality({i \in 1..Len(a) : a[i] # b[i]}) = 1

\* C19: is_hash_of rejects a changed value.  For every value, pepper and
\* generated salt, is_hash_of with method SaltPepper of a value that differs in
\* exactly one character from the one hashed with SaltPepper is false on that
\* hash (the digest being collision-free).
C19_RejectsChangedValue ==
    \A h \in HashCalls : \A v \in VerifyCalls :
        (/\ h.method = "SaltPepper" /\ v.method = "SaltPepper"
         /\ v.cand = h.out
         /\ DiffersInOneCharacter(v.value, h.value))
            => v.out = FALSE

\* A SaltPepper hash of one value was checked against a value that differs in
\* its one character, and is_hash_of has answered false.
C19_Witness ==
    \E h \in HashCalls : \E v \in VerifyCalls :
        /\ h.method = "SaltPepper" /\ v.method = "SaltPepper"
        /\ v.cand = h.out
        /\ DiffersInOneCharacter(v.value, h.value)
        /\ v.out = FALSE

EnrolledFor(u) == {r.passkey.cred_id : r \in {x \in creds : x.owner = u}}

\* C21: the exclusion list of start_registration.  For a known identity the
\* lookup yields exactly the credential ids enrolled for it at that moment, for
\* a mail without identity nothing, and the engine's state carries that set as
\* it was looked up.  A stored state therefore never excludes a credential
\* that is not enrolled for its principal, and a finish_registration whose
\* response presents a credential its state excludes, one enrolled for the
\* principal before the ceremony's lookup, answers AuthenticationFailure and
\* leaves the credential table as it was.
C21_ExclusionList ==
    [][/\ \A p \in Procs :
            (Steps(p, "sr_creds") /\ pc'[p] = "sr_engine")
              => loc'[p].ids = EnrolledFor(loc[p].uid)
       /\ \A p \in Procs : \A mail \in Mails :
            (StartRegUser(p, mail) /\ \A u \in users : u.mail # mail)
              => pc'[p] = "sr_engine" /\ loc'[p].ids = {}
       /\ \A p \in Procs :
            (Steps(p, "sr_engine") /\ pc'[p] = "sr_lock")
              => Unwrap(loc'[p].st).ids = loc[p].ids
       /\ \A u \in DOMAIN regStore' : regStore'[u].ids \subseteq EnrolledFor(u)'
       /\ \A p \in Procs : \A resp \in ClientResps :
            (FinishRegVerify(p, resp) /\ resp.cred \in Unwrap(loc[p].st).ids)
              => /\ pc'[p] = "done"
                 /\ loc'[p].result = AuthenticationFailure
                 /\ creds' = creds
       /\ \A p \in Procs :
            (FinishRegPersist(p) /\ creds' # creds)
              => loc[p].resp.cred \notin Unwrap(loc[p].st).ids]_vars

\* A finish_registration of the known identity is being verified against a
\* state whose exclusion list holds the credential enrolled for it before
\* that ceremony was started.
C21_Witness ==
    \E p \in Procs :
        /\ pc[p] = "fr_verify"
        /\ Unwrap(loc[p].st).ids # {}
        /\ Unwrap(loc[p].st).ids = EnrolledFor(loc[p].uid)

AuthenticationOps == {"start_authentication", "finish_authentication"}

\* C22: authentication never mutates enrolled credentials.  No step of a
\* start_authentication or finish_authentication, whatever it answers,
\* changes the credential table or the passkey-user table; no row is ever
\* removed or altered; and the table changes only by one new row, added by a
\* finish_registration that answers Created.
C22_AuthenticationReadsOnly ==
    [][/\ \A p \in Procs :
            (/\ loc[p].op \in AuthenticationOps \/ loc'[p].op \in AuthenticationOps
             /\ pc'[p] # pc[p] \/ loc'[p] # loc[p])
              => creds' = creds /\ users' = users
       /\ \A r \in creds : r \in creds'
       /\ creds' # creds
            => \E p \in Procs :
                 /\ FinishRegPersist(p)
                 /\ loc'[p].result = Created
                 /\ Cardinality(creds' \ creds) = 1]_vars

\* A finish_authentication has been answered Ok and the record of the
\* credential it presented is as its registration wrote it.
C22_Witness ==
    \E p \in Procs :
        /\ pc[p] = "done"
        /\ loc[p].op = "finish_authentication"
        /\ loc[p].result = Ok
        /\ \E r \in creds :
              /\ r.owner = loc[p].uid
              /\ r.passkey = PasskeyOf([chal |-> 1, cred |-> r.cred])

\* The finish_registration p, which took a state, answers a failure in this
\* step: the engine's rejection, a duplicate credential id or a repository
\* error.
FailsAfterTake(p) ==
    /\ Answers(p)
    /\ pc[p] \in {"fr_verify", "fr_persist"}
    /\ loc'[p].result \in {AuthenticationFailure, AlreadyExists, InternalServerError}

\* C23 as stated: when a finish_registration that took a state answers
\* AuthenticationFailure, AlreadyExists or InternalServerError, the
\* registration store holds no state for its principal.
C23_NoStateAfterFailure ==
    [][\A p \in Procs :
          FailsAfterTake(p) => loc[p].uid \notin DOMAIN regStore']_vars

\* C23 amended: finish_registration consumes before it verifies and restores
\* nothing.  When it answers a failure after its take, the state it took is
\* not in the registration store, and the store holds a state for the
\* principal only if a start_registration put one after the take; as long as
\* no start_registration has put since a take, a finish_registration for the
\* principal answers DoesNotExist.
C23_NotRestored ==
    [][/\ \A p \in Procs :
            FailsAfterTake(p)
              => LET u == loc[p].uid IN
                 /\ regStore' = regStore
                 /\ u \in DOMAIN regStore'
                      => /\ regStore'[u] # Unwrap(loc[p].st)
                         /\ phase["registration"][u] = "started"
                 /\ phase["registration"][u] # "started"
                      => u \notin DOMAIN regStore'
       /\ \A p \in Procs :
            (Steps(p, "fr_remove")
               /\ phase["registration"][loc[p].uid] \in {"taken", "retaken"})
              => /\ pc'[p] = "done"
                 /\ loc'[p].result = DoesNotExist]_vars

\* A finish_registration was answered AuthenticationFailure for the state it
\* took, and a second finish_registration for the same principal, with no
\* start_registration in between, was answered DoesNotExist.
C23_Witness ==
    \E p, q \in Procs :
        /\ pc[p] = "done" /\ loc[p].op = "finish_registration"
        /\ loc[p].at = "started"
        /\ loc[p].result = AuthenticationFailure
        /\ pc[q] = "done" /\ loc[q].op = "finish_registration"
        /\ loc[q].uid = loc[p].uid
        /\ loc[q].at = "taken"
        /\ loc[q].result = DoesNotExist
        /\ loc[p].uid \notin DOMAIN regStore

StartOps == {"start_registration", "start_authentication"}

\* The start-* p answers a failure in this step: a repository error, an engine
\* error or, for start_authentication, an unknown mail.
FailedStart(p) ==
    /\ Answers(p)
    /\ loc'[p].op \in StartOps
    /\ loc'[p].result \in {InternalServerError, DoesNotExist}

\* C24: a start-* that fails before its put leaves both stores as they were.
\* A state put by an earlier start-* and not taken since is in its store, and
\* the next finish-* of its kind for its principal obtains it and goes on to
\* verification.
C24_FailedStartKeepsStores ==
    [][/\ \A p \in Procs :
            FailedStart(p)
              => /\ regStore' = regStore
                 /\ authStore' = authStore
                 /\ nextChal' = nextChal
       /\ \A k \in Kinds : \A u \in Uuids :
            phase[k][u] = "started" => u \in DOMAIN StoreOf(k)
       /\ \A k \in Kinds : \A p \in Procs :
            (Takes(p, k) /\ phase[k][loc[p].uid] = "started")
              => /\ loc'[p].st = Some(StoreOf(k)[loc[p].uid])
                 /\ HoldsState(p)']_vars

\* A start_registration of the known identity failed while a registration
\* state was pending for it, and a later finish_registration has taken that
\* state and is at its verification.
C24_Witness ==
    \E p, q \in Procs :
        /\ pc[p] = "done" /\ loc[p].op = "start_registration"
        /\ loc[p].result = InternalServerError
        /\ loc[p].at = "started"
        /\ pc[q] = "fr_verify" /\ loc[q].uid = 0 /\ loc[q].at = "started"
        /\ \A u \in Uuids \ {0} : phase["registration"][u] = "unstarted"

\* What sign_in(mail, password) is to answer, by the sign-ups that succeeded.
ExpectedSignIn(mail, password) ==
    IF signedUp[mail] = None THEN DoesNotExist
    ELSE IF password = Unwrap(signedUp[mail]) THEN Ok
    ELSE AuthenticationFailure

\* The request answered in this step, when the repository answered it.
Answered(op) ==
    /\ signCall' # None
    /\ Unwrap(signCall').op = op
    /\ Unwrap(signCall').result # InternalServerError

\* C25: once sign_up(mail, name, password) has succeeded, sign_in(mail, p)
\* answers Ok exactly when p is that password and AuthenticationFailure
\* otherwise; sign_in for a mail that never signed up answers DoesNotExist; a
\* second sign_up with the same mail answers AlreadyExists and changes the
\* answer of no sign_in.
C25_PasswordSignIn ==
    [][/\ \A m \in Mails : \A p \in Values :
            sign_in(accounts, m, p) = ExpectedSignIn(m, p)
       /\ Answered("sign_in")
            => Unwrap(signCall').result =
                  ExpectedSignIn(Unwrap(signCall').mail, Unwrap(signCall').password)
       /\ (Answered("sign_up") /\ signedUp[Unwrap(signCall').mail] = None)
            => /\ Unwrap(signCall').result = Created
               /\ \A p \in Values :
                    sign_in(accounts', Unwrap(signCall').mail, p) =
                        IF p = Unwrap(signCall').password
                        THEN Ok ELSE AuthenticationFailure
       /\ (Answered("sign_up") /\ signedUp[Unwrap(signCall').mail] # None)
            => /\ Unwrap(signCall').result = AlreadyExists
               /\ \A m \in Mails : \A p \in Values :
                    sign_in(accounts', m, p) = sign_in(accounts, m, p)]_vars

\* Both mails have signed up with different passwords, the known one with a
\* password holding the delimiter, and a sign_in with it has answered Ok.
C25_Witness ==
    /\ signedUp[KnownMail] = Some(<<"$">>)
    /\ \A m \in Mails \ {KnownMail} :
          signedUp[m] # None /\ signedUp[m] # signedUp[KnownMail]
    /\ signCall = SignCall("sign_in", KnownMail, <<"$">>, Ok)

====
